---- MODULE Spec2Model ----
(***************************************************************************)
(* Model of src/src/index.js: the detection orchestrator (detect), its     *)
(* result merger (mix), the process-wide report cache, and the             *)
(* device/certificate/provisioning-profile combination resolver            *)
(* (findValidDeviceCertProfileCombos).                                     *)
(***************************************************************************)
EXTENDS Integers, Sequences, FiniteSets, TLC

VARIABLES
    cache,      \* line 68: 0 while undefined, else the call whose results object is cached
    calls,      \* per detect call: its options, its detectors, what its caller received
    heaps,      \* per detect call: the objects of that pass
    mheap,      \* merger on its own: the heap mix works on
    mlog,       \* merger on its own: the merges applied so far
    fpc,        \* resolver: where findValidDeviceCertProfileCombos stands
    fasked,     \* resolver: the collaborators queried so far, in order
    fdev,       \* resolver: what device.detect called back with
    fcert,      \* resolver: what certs.detect called back with
    fprof,      \* resolver: what provisioning.find called back with
    fresult     \* resolver: what the caller's callback received

orchVars == <<cache, calls, heaps>>
mixVars == <<mheap, mlog>>
comboVars == <<fpc, fasked, fdev, fcert, fprof, fresult>>
vars == <<cache, calls, heaps, mheap, mlog, fpc, fasked, fdev, fcert, fprof, fresult>>

(***************************************************************************)
(* JavaScript values.  A value is undefined, null, a primitive scalar or a *)
(* reference to a heap object.  A primitive carries a number: 0 stands for *)
(* the falsy scalars (0, "", false), a positive number for a truthy one.   *)
(* A heap object is an array or a plain object; both carry named           *)
(* properties (o), an array also its elements (a).  A heap is a sequence   *)
(* of objects, an address is an index into it.                             *)
(***************************************************************************)
Undefined == [k |-> "undefined", v |-> 0]
Null == [k |-> "null", v |-> 0]
Prim(n) == [k |-> "prim", v |-> n]
Ref(addr) == [k |-> "ref", v |-> addr]

NoProps == [n \in {} |-> Undefined]
EmptyObject == [t |-> "object", a |-> <<>>, o |-> NoProps]
NewArray(elems) == [t |-> "array", a |-> elems, o |-> NoProps]

RECURSIVE MakeProps(_, _)
MakeProps(pairs, i) ==
    IF i > Len(pairs) THEN NoProps
    ELSE (pairs[i][1] :> pairs[i][2]) @@ MakeProps(pairs, i + 1)

\* An object literal { k1: v1, k2: v2, ... } given as <<<<k1, v1>>, <<k2, v2>>, ...>>.
ObjectLit(pairs) ==
    [t |-> "object", a |-> <<>>, o |-> MakeProps(pairs, 1)]

\* Object.keys(obj): the property names, enumerated in the fixed order KeyOrder.
KeyOrder ==
    << "a", "b", "k", "m", "x", "y", "z",
       "detectVersion", "issues", "certs", "keychains", "devices", "executables",
       "provisioning", "profiles", "simulators", "xcode",
       "home", "sdk", "ndk", "genymotion", "emulators" >>

InObject(h, addr, name) == name \in DOMAIN h[addr].o
Keys(h, addr) == SelectSeq(KeyOrder, LAMBDA n : InObject(h, addr, n))

\* obj[name]: a missing property reads as undefined.
Get(h, addr, name) ==
    IF name \in DOMAIN h[addr].o THEN h[addr].o[name] ELSE Undefined

\* obj[name] = val
SetProp(h, addr, name, val) ==
    [h EXCEPT ![addr] = [@ EXCEPT !.o = (name :> val) @@ @]]

\* JavaScript truthiness: undefined, null and the falsy scalars are falsy.
Truthy(val) == val.k = "ref" \/ (val.k = "prim" /\ val.v > 0)

\* Faulty variant: typeof val === 'object' used where Array.isArray(val) is meant.
IsArray_typeof(h, val) == val.k = "ref"

\* Array.isArray(val)
IsArray(h, val) == val.k = "ref" /\ h[val.v].t = "array"

\* val !== null && typeof val === 'object' (arrays included)
IsObject(h, val) == val.k = "ref"

\* The file is an ES module (its first statements are import declarations),
\* so its code runs in strict mode: assigning a property of a primitive
\* throws a TypeError instead of being ignored.
StrictMode == TRUE

(***************************************************************************)
(* mix(src, dest), lines 100-117.  The state st of a run is the heap and   *)
(* whether an exception was thrown (which ends the forEach loops).         *)
(***************************************************************************)
RECURSIVE mixCopyKeys(_, _, _, _, _, _)
\* lines 110-112: Object.keys(src[name]).forEach(key => dest[name][key] = src[name][key])
mixCopyKeys(st, from, dest, name, keys, i) ==
    IF i > Len(keys) \/ st.threw THEN st
    ELSE LET target == Get(st.h, dest, name)
             val == Get(st.h, from, keys[i])
         IN  IF target.k = "ref"
             THEN mixCopyKeys([st EXCEPT !.h = SetProp(st.h, target.v, keys[i], val)],
                              from, dest, name, keys, i + 1)
             ELSE IF StrictMode
                  THEN [st EXCEPT !.threw = TRUE]
                  ELSE mixCopyKeys(st, from, dest, name, keys, i + 1)

\* Faulty variant: the destination's entries are lost, as when two merges read the
\* same array and the later write wins.
mixConcat_lost(h, destArr, srcArr) == NewArray(h[srcArr].a)

\* Faulty variant: the source's entries are put before the destination's.
mixConcat_swapped(h, destArr, srcArr) == NewArray(h[srcArr].a \o h[destArr].a)

\* dest[name].concat(src[name]): a new array with the elements of both.
mixConcat(h, destArr, srcArr) == NewArray(h[destArr].a \o h[srcArr].a)

\* lines 102-115: the body of the forEach over the source's keys.
mixKey(st, src, dest, name) ==
    LET h == st.h
        sv == Get(h, src, name)
        dv == Get(h, dest, name)
    IN  IF IsArray(h, sv)
        THEN IF IsArray(h, dv)
             THEN [st EXCEPT !.h = SetProp(Append(h, mixConcat(h, dv.v, sv.v)),
                                           dest, name, Ref(Len(h) + 1))]
             ELSE [st EXCEPT !.h = SetProp(h, dest, name, sv)]
        ELSE IF IsObject(h, sv)
        THEN LET h1 == IF Truthy(dv) THEN h
                       ELSE SetProp(Append(h, EmptyObject), dest, name, Ref(Len(h) + 1))
             IN  mixCopyKeys([st EXCEPT !.h = h1], sv.v, dest, name, Keys(h1, sv.v), 1)
        ELSE [st EXCEPT !.h = SetProp(h, dest, name, sv)]

RECURSIVE mixKeys(_, _, _, _, _)
\* line 101: Object.keys(src).forEach(...), over the keys as they were at the call.
mixKeys(st, src, dest, keys, i) ==
    IF i > Len(keys) \/ st.threw THEN st
    ELSE mixKeys(mixKey(st, src, dest, keys[i]), src, dest, keys, i + 1)

mix(h, src, dest) == mixKeys([h |-> h, threw |-> FALSE], src, dest, Keys(h, src), 1)

(***************************************************************************)
(* The orchestrator.  detect (lines 88-167) owns the cache; the exported   *)
(* Promise-returning detect (lines 34-54) joins its detectors with         *)
(* Promise.all.  Each pass allocates its objects in a heap of its own      *)
(* (detectors hand over fresh objects on every pass).                      *)
(***************************************************************************)
MaxCalls == 2
CallIds == 1..MaxCalls

\* lines 120-155: the tasks handed to async.parallel, in order.
Detectors ==
    <<"certificates", "devices", "environment", "provisioningProfiles", "simulators", "xcodes">>
\* lines 36-40: the promises handed to Promise.all, in order.
PromiseDetectors == <<"SDK", "NDK", "Genymotion", "Device", "Emulator">>

Range(seq) == {seq[i] : i \in DOMAIN seq}
AllDetectors == Range(Detectors) \cup Range(PromiseDetectors)

\* lines 95-98: the results object of a pass and its empty issues array (addresses
\* 1 and 2), followed by the objects the six detectors hand over when they succeed.
ResultsAddr == 1
PassHeap ==
    << ObjectLit(<< <<"detectVersion", Prim(4)>>, <<"issues", Ref(2)>> >>),
       NewArray(<<>>),
       ObjectLit(<< <<"certs", Ref(4)>>, <<"issues", Ref(5)>> >>),
       ObjectLit(<< <<"keychains", Prim(1)>> >>),
       NewArray(<<1>>),
       ObjectLit(<< <<"devices", Ref(7)>> >>),
       NewArray(<<2>>),
       ObjectLit(<< <<"executables", Prim(3)>> >>),
       ObjectLit(<< <<"provisioning", Ref(10)>>, <<"issues", Ref(11)>> >>),
       ObjectLit(<< <<"profiles", Prim(4)>> >>),
       NewArray(<<4>>),
       ObjectLit(<< <<"simulators", Ref(13)>> >>),
       NewArray(<<5>>),
       ObjectLit(<< <<"xcode", Prim(6)>> >>) >>

\* The address of the result object each detector passes to its callback.
ResultOf ==
    [certificates |-> 3, devices |-> 6, environment |-> 8,
     provisioningProfiles |-> 9, simulators |-> 12, xcodes |-> 14]

NoEvent == <<>>
NoCall ==
    [called |-> FALSE, variant |-> "none", bypassCache |-> FALSE,
     det |-> [d \in AllDetectors |-> "idle"],
     launched |-> <<>>,      \* the detectors started, in order, and the options each got
     results |-> 0,          \* the heap that holds the results object of the pass
     settled |-> FALSE,      \* async.parallel / Promise.all has reported its outcome
     notified |-> 0,         \* how often the caller was notified
     err |-> "none",         \* the error the caller received (the failing detector)
     report |-> 0,           \* the report the caller received (the call that built it)
     cacheSeen |-> 0,        \* the cache as it was when the caller was notified
     emitted |-> NoEvent,    \* events emitted on the call's emitter
     uncaught |-> 0,         \* exceptions thrown out of a detector callback
     firstErr |-> "none",    \* history: the detector that failed first
     cacheAtCall |-> 0,      \* history: the cache when the call was made
     heapAtCall |-> <<>>]    \* history: the cached report's objects at that moment

Event(name, report, err) == [ev |-> name, report |-> report, err |-> err]

\* Faulty variant: the results are cached whether or not the pass failed.
finalCallback_cachesOnError(c, call, cch, err) ==
    IF err # "none"
    THEN [call |-> [call EXCEPT !.emitted = Append(@, Event("error", 0, err)),
                                !.notified = @ + 1,
                                !.err = err,
                                !.cacheSeen = c],
          cache |-> c]
    ELSE [call |-> [call EXCEPT !.emitted = Append(@, Event("detected", c, "none")),
                                !.notified = @ + 1,
                                !.report = c,
                                !.cacheSeen = c],
          cache |-> c]

\* Faulty variant: the caller is notified before the results are stored in the cache.
finalCallback_notifiesFirst(c, call, cch, err) ==
    IF err # "none"
    THEN [call |-> [call EXCEPT !.emitted = Append(@, Event("error", 0, err)),
                                !.notified = @ + 1,
                                !.err = err,
                                !.cacheSeen = cch],
          cache |-> cch]
    ELSE [call |-> [call EXCEPT !.emitted = Append(@, Event("detected", c, "none")),
                                !.notified = @ + 1,
                                !.report = c,
                                !.cacheSeen = cch],
          cache |-> c]

\* lines 156-165: the final callback handed to async.parallel.  cch is the cache
\* before it runs; the result is the call record and the cache after it.
finalCallback(c, call, cch, err) ==
    IF err # "none"
    THEN [call |-> [call EXCEPT !.emitted = Append(@, Event("error", 0, err)),
                                !.notified = @ + 1,
                                !.err = err,
                                !.cacheSeen = cch],
          cache |-> cch]
    ELSE [call |-> [call EXCEPT !.emitted = Append(@, Event("detected", c, "none")),
                                !.notified = @ + 1,
                                !.report = c,
                                !.cacheSeen = c],
          cache |-> c]

\* Faulty variant: the final callback is not guarded against running more than once.
parallelDone_notOnce(c, call, cch, err) ==
    IF err # "none"
    THEN finalCallback(c, [call EXCEPT !.settled = TRUE], cch, err)
    ELSE IF \A i \in DOMAIN Detectors : call.det[Detectors[i]] \in {"ok", "err"}
         THEN finalCallback(c, [call EXCEPT !.settled = TRUE], cch, "none")
         ELSE [call |-> call, cache |-> cch]

\* Faulty variant: the pass is taken to have succeeded when the last task completes,
\* whether or not an earlier task failed.
parallelDone_lateSuccess(c, call, cch, err) ==
    IF err # "none"
    THEN IF call.settled THEN [call |-> call, cache |-> cch]
         ELSE finalCallback(c, [call EXCEPT !.settled = TRUE], cch, err)
    ELSE IF \A i \in DOMAIN Detectors : call.det[Detectors[i]] \in {"ok", "err"}
         THEN finalCallback(c, [call EXCEPT !.settled = TRUE], cch, "none")
         ELSE [call |-> call, cache |-> cch]

\* Faulty variant: an error passed to done is dropped.
parallelDone_dropsError(c, call, cch, err) ==
    IF call.settled \/ err # "none" THEN [call |-> call, cache |-> cch]
    ELSE IF \A i \in DOMAIN Detectors : call.det[Detectors[i]] = "ok"
         THEN finalCallback(c, [call EXCEPT !.settled = TRUE], cch, "none")
         ELSE [call |-> call, cache |-> cch]

\* Faulty variant: the final callback runs when the first task has completed.
parallelDone_firstDone(c, call, cch, err) ==
    IF call.settled THEN [call |-> call, cache |-> cch]
    ELSE finalCallback(c, [call EXCEPT !.settled = TRUE], cch, err)

\* async.parallel (line 119): done(err) of one task.  The final callback runs once:
\* with the first error, or with no error when every task has completed.
parallelDone(c, call, cch, err) ==
    IF call.settled THEN [call |-> call, cache |-> cch]
    ELSE IF err # "none"
         THEN finalCallback(c, [call EXCEPT !.settled = TRUE], cch, err)
         ELSE IF \A i \in DOMAIN Detectors : call.det[Detectors[i]] = "ok"
              THEN finalCallback(c, [call EXCEPT !.settled = TRUE], cch, "none")
              ELSE [call |-> call, cache |-> cch]

\* lines 120-155 and 36-40: every detector of the list is called, in order, with the
\* options of the call (of which the model keeps bypassCache).
Launch(dets, options) == [i \in DOMAIN dets |-> [det |-> dets[i], opts |-> options]]

Pending(call) == \E d \in AllDetectors : call.det[d] = "pending"

\* Once every detector of a pass has called back, nothing in the program refers to
\* the pass's task state any more, and the results object of a failed pass is
\* garbage: when a later call is made, a completed pass keeps what its caller
\* received, and of its detectors only whether they were invoked.
Forget(call) ==
    IF ~call.called \/ Pending(call) THEN call
    ELSE [call EXCEPT !.det = [d \in AllDetectors |-> IF @[d] = "idle" THEN "idle" ELSE "done"],
                      !.heapAtCall = <<>>]
Collect(call, heap) ==
    IF call.called /\ ~Pending(call) /\ call.report = 0 THEN <<>> ELSE heap

\* Faulty variant: a pass that bypasses the cache merges into the cached report.
newResults_reusesCache(c, cch) == IF cch # 0 THEN cch ELSE c

\* lines 95-98: var results = { detectVersion: '4.0', issues: [] }, a new object on
\* every pass, allocated in the heap of the pass.
newResults(c, cch) == c

\* lines 88-98 and 119: the body of detect up to the launch of the detectors.
detect(c, bypassCache) ==
    /\ ~calls[c].called
    /\ LET call == [calls[c] EXCEPT !.called = TRUE, !.variant = "callback",
                                    !.bypassCache = bypassCache,
                                    !.cacheAtCall = cache,
                                    !.heapAtCall = IF cache = 0 THEN <<>> ELSE heaps[cache]]
       IN  IF cache # 0 /\ ~bypassCache
           THEN /\ calls' = [b \in CallIds |->
                        IF b # c THEN Forget(calls[b])
                        ELSE [call EXCEPT !.emitted = Append(@, Event("detected", cache, "none")),
                                          !.notified = @ + 1,
                                          !.report = cache,
                                          !.cacheSeen = cache]]
                /\ heaps' = [b \in CallIds |-> Collect(calls[b], heaps[b])]
           ELSE /\ calls' = [b \in CallIds |->
                        IF b # c THEN Forget(calls[b])
                        ELSE [call EXCEPT !.det = [d \in AllDetectors |->
                                 IF d \in Range(Detectors) THEN "pending" ELSE "idle"],
                                          !.launched = Launch(Detectors, bypassCache),
                                          !.results = newResults(c, cache)]]
                /\ heaps' = [b \in CallIds |->
                        IF b = c THEN PassHeap ELSE Collect(calls[b], heaps[b])]
    /\ UNCHANGED <<cache, mixVars, comboVars>>

\* lines 121-124 (and 127-154): a detector calls back with a result.
\* err || mix(result, results); done(err)
detected(c, d) ==
    /\ calls[c].variant = "callback"
    /\ calls[c].det[d] = "pending"
    /\ LET m == mix(heaps[calls[c].results], ResultOf[d], ResultsAddr)
       IN  /\ heaps' = [heaps EXCEPT ![calls[c].results] = m.h]
           /\ IF m.threw
              THEN /\ calls' = [calls EXCEPT ![c].det[d] = "threw", ![c].uncaught = @ + 1]
                   /\ UNCHANGED cache
              ELSE LET r == parallelDone(c, [calls[c] EXCEPT !.det[d] = "ok"], cache, "none")
                   IN  /\ calls' = [calls EXCEPT ![c] = r.call]
                       /\ cache' = r.cache
    /\ UNCHANGED <<mixVars, comboVars>>

\* lines 121-124 (and 127-154): a detector calls back with an error.
failed(c, d) ==
    /\ calls[c].variant = "callback"
    /\ calls[c].det[d] = "pending"
    /\ LET r == parallelDone(c, [calls[c] EXCEPT !.det[d] = "err", !.firstErr = IF @ = "none" THEN d ELSE @],
                             cache, d)
       IN  /\ calls' = [calls EXCEPT ![c] = r.call]
           /\ cache' = r.cache
    /\ UNCHANGED <<heaps, mixVars, comboVars>>

\* lines 43-52: the result the Promise-returning detect builds once every promise
\* has been fulfilled.
promiseResult ==
    << ObjectLit(<< <<"home", Prim(1)>>, <<"sdk", Prim(2)>>, <<"ndk", Prim(3)>>,
                    <<"genymotion", Prim(4)>>, <<"devices", Prim(5)>>,
                    <<"emulators", Prim(6)>> >>) >>

\* lines 34-41: the Promise-returning detect starts its five detectors; it neither
\* reads nor writes the cache.
detectPromise(c, bypassCache) ==
    /\ ~calls[c].called
    /\ calls' = [b \in CallIds |->
           IF b # c THEN Forget(calls[b])
           ELSE [calls[c] EXCEPT !.called = TRUE, !.variant = "promise",
                     !.bypassCache = bypassCache,
                     !.cacheAtCall = cache,
                     !.heapAtCall = IF cache = 0 THEN <<>> ELSE heaps[cache],
                     !.det = [d \in AllDetectors |->
                                 IF d \in Range(PromiseDetectors) THEN "pending" ELSE "idle"],
                     !.launched = Launch(PromiseDetectors, bypassCache)]]
    /\ heaps' = [b \in CallIds |-> Collect(calls[b], heaps[b])]
    /\ UNCHANGED <<cache, mixVars, comboVars>>

\* lines 35-53: one promise is fulfilled; when all are, the .then callback builds
\* the result and the returned promise is fulfilled with it.
fulfilled(c, d) ==
    /\ calls[c].variant = "promise"
    /\ calls[c].det[d] = "pending"
    /\ LET call == [calls[c] EXCEPT !.det[d] = "ok"]
       IN  IF ~call.settled /\ \A i \in DOMAIN PromiseDetectors : call.det[PromiseDetectors[i]] = "ok"
           THEN /\ calls' = [calls EXCEPT ![c] =
                        [call EXCEPT !.settled = TRUE, !.notified = @ + 1,
                                     !.report = c, !.cacheSeen = cache]]
                /\ heaps' = [heaps EXCEPT ![c] = promiseResult]
           ELSE /\ calls' = [calls EXCEPT ![c] = call]
                /\ UNCHANGED heaps
    /\ UNCHANGED <<cache, mixVars, comboVars>>

\* lines 35-41: one promise is rejected; Promise.all rejects with the first reason.
rejected(c, d) ==
    /\ calls[c].variant = "promise"
    /\ calls[c].det[d] = "pending"
    /\ LET call == [calls[c] EXCEPT !.det[d] = "err", !.firstErr = IF @ = "none" THEN d ELSE @]
       IN  calls' = [calls EXCEPT ![c] =
               IF call.settled THEN call
               ELSE [call EXCEPT !.settled = TRUE, !.notified = @ + 1,
                                 !.err = d, !.cacheSeen = cache]]
    /\ UNCHANGED <<cache, heaps, mixVars, comboVars>>

\* The caller makes its calls one after the other: call c is made when the calls
\* before it have been made and none of their detectors is still running.
CallerReady(c) ==
    \A b \in CallIds : b < c => calls[b].called /\ ~Pending(calls[b])

\* Nothing has been called: the state of the module once it is loaded.
InitOrch ==
    /\ cache = 0
    /\ calls = [c \in CallIds |-> NoCall]
    /\ heaps = [c \in CallIds |-> <<>>]
InitMerger ==
    /\ mheap = <<>>
    /\ mlog = <<>>
NoResponse == [err |-> FALSE, has |-> FALSE, val |-> <<>>]
NoResult == [status |-> "none", error |-> "none", combos |-> <<>>, notified |-> 0]
InitResolver ==
    /\ fpc = "idle"
    /\ fasked = <<>>
    /\ fdev = NoResponse
    /\ fcert = NoResponse
    /\ fprof = NoResponse
    /\ fresult = NoResult

Init == InitOrch /\ InitMerger /\ InitResolver

Next ==
    \/ \E c \in CallIds, b \in BOOLEAN : CallerReady(c) /\ detect(c, b)
    \/ \E c \in CallIds, b \in BOOLEAN : CallerReady(c) /\ detectPromise(c, b)
    \/ \E c \in CallIds, d \in Range(Detectors) : detected(c, d)
    \/ \E c \in CallIds, d \in Range(Detectors) : failed(c, d)
    \/ \E c \in CallIds, d \in Range(PromiseDetectors) : fulfilled(c, d)
    \/ \E c \in CallIds, d \in Range(PromiseDetectors) : rejected(c, d)

Spec == Init /\ [][Next]_vars

\* A detector that was started calls back, with a result or with an error.
Completion ==
    \/ \E c \in CallIds, d \in Range(Detectors) : failed(c, d)
    \/ \E c \in CallIds, d \in Range(PromiseDetectors) : rejected(c, d)
    \/ \E c \in CallIds, d \in Range(Detectors) : detected(c, d)
    \/ \E c \in CallIds, d \in Range(PromiseDetectors) : fulfilled(c, d)

\* The orchestrator under the assumption that detectors do call back: as long as
\* some detector is running, one of them eventually completes.
SpecLive == Spec /\ WF_vars(Completion)

\* Callers that do not wait for one another: call c is made once the calls before
\* it have been made, whether or not their detectors are still running.
CallerOverlapping(c) ==
    \A b \in CallIds : b < c => calls[b].called

\* The six tasks differ only in the detector they call (lines 120-155): with
\* overlapping calls, failures are drawn for one detector that hands over
\* diagnostics and one that does not.
MayFail == {"certificates", "xcodes"}

\* Overlapping calls of detect (lines 88-167), the only code that touches the cache.
NextOverlap ==
    \/ \E c \in CallIds, b \in BOOLEAN : CallerOverlapping(c) /\ detect(c, b)
    \/ \E c \in CallIds, d \in Range(Detectors) : detected(c, d)
    \/ \E c \in CallIds, d \in MayFail : failed(c, d)

SpecOverlap == Init /\ [][NextOverlap]_vars

(***************************************************************************)
(* Claims about the orchestrator (checked under Spec).                     *)
(***************************************************************************)
Invoked(c, d) == calls[c].det[d] # "idle"
LastCall(c) == \A b \in CallIds : b > c => ~calls[b].called
AllOk(c, dets) == \A i \in DOMAIN dets : calls[c].det[dets[i]] = "ok"
CountIn(c, dets, status) == Cardinality({i \in DOMAIN dets : calls[c].det[dets[i]] = status})

\* C1 as stated: a call to detect made while a report is cached and without
\* bypassCache returns exactly the cached report and invokes no detector; so of two
\* calls without bypassCache, the second made after the first returned its report,
\* only one invokes the detectors.
C1_CacheShortCircuit ==
    /\ \A c \in CallIds :
          (calls[c].called /\ calls[c].cacheAtCall # 0 /\ ~calls[c].bypassCache) =>
              /\ calls[c].notified = 1
              /\ calls[c].err = "none"
              /\ calls[c].report = calls[c].cacheAtCall
              /\ \A d \in AllDetectors : ~Invoked(c, d)
    /\ \A b, c \in CallIds :
          (b < c /\ calls[b].called /\ calls[c].called
              /\ ~calls[b].bypassCache /\ ~calls[c].bypassCache /\ calls[b].report # 0) =>
              \A d \in AllDetectors : ~(Invoked(b, d) /\ Invoked(c, d))

\* C2: once a detector of a pass has failed, the caller has been notified exactly
\* once, with the error of the detector that failed first, and has received no
\* report, however many of the other detectors succeeded before or after it.
C2_FailFast ==
    \A c \in CallIds :
        calls[c].firstErr # "none" =>
            /\ calls[c].notified = 1
            /\ calls[c].err = calls[c].firstErr
            /\ calls[c].report = 0
            /\ \A i \in DOMAIN calls[c].emitted : calls[c].emitted[i].ev # "detected"

\* C2 witness: five of the six detectors of a pass succeeded and one failed.
C2_Witness ==
    \E c \in CallIds :
        /\ CountIn(c, Detectors, "ok") = 5
        /\ CountIn(c, Detectors, "err") = 1
        /\ calls[c].err # "none"

\* C3: a failed pass never puts its results into the cache, and as long as no later
\* call has been made the cache is what it was when the failed call was made: empty
\* if it was empty, else the same report with the same contents.
C3_FailedPassKeepsCache ==
    \A c \in CallIds :
        calls[c].firstErr # "none" =>
            /\ cache # c
            /\ LastCall(c) =>
                  /\ cache = calls[c].cacheAtCall
                  /\ cache # 0 => heaps[cache] = calls[c].heapAtCall

\* C3 witness: a report was cached, and a later pass with bypassCache ended with five
\* detectors succeeded and one failed.
C3_Witness ==
    \E c \in CallIds :
        /\ calls[c].variant = "callback"
        /\ calls[c].cacheAtCall # 0
        /\ CountIn(c, Detectors, "ok") = 5
        /\ CountIn(c, Detectors, "err") = 1
        /\ cache = calls[c].cacheAtCall

\* C4: when all six detectors of a pass of detect have succeeded, the caller has been
\* notified once, with the results of this pass, and the cache already held them
\* when it was notified; the cache holds the results of the latest pass that
\* succeeded.
C4_SuccessIsCached ==
    \A c \in CallIds :
        /\ (calls[c].variant = "callback" /\ AllOk(c, Detectors)) =>
              /\ calls[c].notified = 1
              /\ calls[c].err = "none"
              /\ calls[c].report = c
              /\ calls[c].cacheSeen = c
        /\ (calls[c].variant = "callback" /\ calls[c].report = c
                /\ \A b \in CallIds : (b > c /\ calls[b].variant = "callback") => calls[b].report # b)
              => cache = c

\* C4 witness: a pass succeeded and was cached, then a pass with bypassCache
\* succeeded and replaced it in the cache.
C4_Witness ==
    \E b, c \in CallIds :
        /\ b < c
        /\ calls[b].report = b /\ calls[b].variant = "callback"
        /\ calls[c].bypassCache /\ calls[c].cacheAtCall = b
        /\ calls[c].variant = "callback" /\ AllOk(c, Detectors)
        /\ cache = c

(***************************************************************************)
(* The merger on its own: mix applied to a bounded set of sources and      *)
(* destinations.                                                           *)
(***************************************************************************)
MaxMerges == 2

\* The sources (addresses 1, 3, 5, 7, 10, 11, 12, 14, 16) and the objects they hold.
MixSourceHeap ==
    << ObjectLit(<< <<"a", Ref(2)>> >>),                    \*  1  {a: [1, 2]}
       NewArray(<<1, 2>>),                                  \*  2
       ObjectLit(<< <<"a", Ref(4)>> >>),                    \*  3  {a: [3]}
       NewArray(<<3>>),                                     \*  4
       ObjectLit(<< <<"a", Ref(6)>> >>),                    \*  5  {a: {k: 1}}
       ObjectLit(<< <<"k", Prim(1)>> >>),                   \*  6
       ObjectLit(<< <<"a", Ref(8)>> >>),                    \*  7  {a: {k: 2, m: {x: 1}}}
       ObjectLit(<< <<"k", Prim(2)>>, <<"m", Ref(9)>> >>),  \*  8
       ObjectLit(<< <<"x", Prim(1)>> >>),                   \*  9
       ObjectLit(<< <<"a", Prim(7)>> >>),                   \* 10  {a: "x"}
       ObjectLit(<< <<"a", Null>>, <<"b", Prim(0)>> >>),    \* 11  {a: null, b: 0}
       ObjectLit(<< <<"a", Ref(13)>> >>),                   \* 12  {a: {}}
       EmptyObject,                                         \* 13
       ObjectLit(<< <<"a", Undefined>>, <<"b", Ref(15)>> >>),  \* 14  {a: undefined, b: [4]}
       NewArray(<<4>>),                                     \* 15
       ObjectLit(<< <<"a", Ref(17)>>, <<"b", Ref(18)>> >>), \* 16  {a: {k: 3}, b: [5]}
       ObjectLit(<< <<"k", Prim(3)>> >>),                   \* 17
       NewArray(<<5>>) >>                                   \* 18
MixSources == {1, 3, 5, 7, 10, 11, 12, 14, 16}

\* The destination is the object after the sources, followed by what it holds.
DestAddr == Len(MixSourceHeap) + 1
FreshDest == << EmptyObject >>
MixDests ==
    { FreshDest,                                                         \* {}
      << ObjectLit(<< <<"a", Prim(7)>> >>) >>,                           \* {a: "x"}
      << ObjectLit(<< <<"a", Ref(DestAddr + 1)>> >>), NewArray(<<9>>) >>,    \* {a: [9]}
      << ObjectLit(<< <<"a", Ref(DestAddr + 1)>> >>),
         ObjectLit(<< <<"k", Prim(9)>>, <<"z", Prim(9)>> >>) >>,         \* {a: {k: 9, z: 9}}
      << ObjectLit(<< <<"a", Null>>, <<"b", Prim(5)>> >>) >>,            \* {a: null, b: 5}
      << ObjectLit(<< <<"a", Prim(0)>> >>) >>,                           \* {a: 0}
      << ObjectLit(<< <<"a", Ref(DestAddr + 1)>>, <<"b", Ref(DestAddr + 3)>> >>),
         ObjectLit(<< <<"m", Ref(DestAddr + 2)>> >>),
         ObjectLit(<< <<"y", Prim(9)>> >>),
         NewArray(<<8>>) >> }                                            \* {a: {m: {y: 9}}, b: [8]}

\* One call mix(src, dest); the log keeps the source, the heap before the call and
\* whether the call threw.
merge(src) ==
    /\ Len(mlog) < MaxMerges
    /\ LET m == mix(mheap, src, DestAddr)
       IN  /\ mheap' = m.h
           /\ mlog' = Append(mlog, [src |-> src, pre |-> mheap, threw |-> m.threw])
    /\ UNCHANGED <<orchVars, comboVars>>

InitMix ==
    /\ InitOrch
    /\ InitResolver
    /\ \E d \in MixDests : mheap = MixSourceHeap \o d
    /\ mlog = <<>>

NextMix == \E src \in MixSources : merge(src)

SpecMix == InitMix /\ [][NextMix]_vars

\* The heap after the i-th merge of the log.
PostHeap(i) == IF i < Len(mlog) THEN mlog[i + 1].pre ELSE mheap

\* The value a reference stands for, whatever the addresses.
RECURSIVE Deep(_, _)
Deep(h, val) ==
    IF val.k # "ref"
    THEN [k |-> val.k, v |-> val.v, t |-> "none", a |-> <<>>, o |-> NoProps]
    ELSE [k |-> "ref", v |-> 0, t |-> h[val.v].t, a |-> h[val.v].a,
          o |-> [n \in DOMAIN h[val.v].o |-> Deep(h, h[val.v].o[n])]]

(***************************************************************************)
(* Claims about the merger (checked under SpecMix).                        *)
(***************************************************************************)
HoldsArray(h, val) == val.k = "ref" /\ h[val.v].t = "array"
IsFresh(h) == h = MixSourceHeap \o FreshDest
LogSources == [i \in DOMAIN mlog |-> mlog[i].src]

\* C5: array rule.  After a merge that returned, for every key of the source that
\* holds an array: the destination holds the concatenation of its previous array
\* and the source's array if it held an array before, and otherwise holds exactly
\* the source's array.  {a:[1,2]} then {a:[3]} into {} gives {a:[1,2,3]}, and
\* {a:[3]} into {a:"x"} gives {a:[3]}.
C5_ArrayRule ==
    /\ \A i \in DOMAIN mlog :
          LET pre == mlog[i].pre
              post == PostHeap(i)
              src == mlog[i].src
          IN  ~mlog[i].threw =>
                \A n \in DOMAIN pre[src].o :
                    LET sv == Get(pre, src, n)
                        dv == Get(pre, DestAddr, n)
                        nv == Get(post, DestAddr, n)
                    IN  HoldsArray(pre, sv) =>
                          IF HoldsArray(pre, dv)
                          THEN /\ HoldsArray(post, nv)
                               /\ post[nv.v].a = pre[dv.v].a \o pre[sv.v].a
                          ELSE /\ nv = sv
                               /\ post[sv.v] = pre[sv.v]
    /\ (Len(mlog) = 2 /\ IsFresh(mlog[1].pre) /\ LogSources = <<1, 3>>)
          => Deep(mheap, Ref(DestAddr)).o = [n \in {"a"} |-> Deep(<<NewArray(<<1, 2, 3>>)>>, Ref(1))]
    /\ (Len(mlog) = 1 /\ LogSources = <<3>>
            /\ mlog[1].pre[DestAddr] = ObjectLit(<< <<"a", Prim(7)>> >>))
          => Deep(mheap, Ref(DestAddr)).o = [n \in {"a"} |-> Deep(<<NewArray(<<3>>)>>, Ref(1))]

\* C5 witness: {a:[1,2]} then {a:[3]} were merged into a fresh destination, the
\* second onto the array the first left there.
C5_Witness ==
    /\ Len(mlog) = 2 /\ IsFresh(mlog[1].pre) /\ LogSources = <<1, 3>>
    /\ HoldsArray(mlog[2].pre, Get(mlog[2].pre, DestAddr, "a"))
    /\ ~mlog[2].threw

\* C6 as stated: object rule.  After a merge that returned, for every key of the
\* source that holds a non-array object, the destination holds an object at that
\* key, with every key of the source object at the source's value (the same value
\* or reference, not a merge of it) and every other key it had before kept,
\* whatever the destination held there before.
C6_ObjectRule ==
    \A i \in DOMAIN mlog :
        LET pre == mlog[i].pre
            post == PostHeap(i)
            src == mlog[i].src
        IN  ~mlog[i].threw =>
              \A n \in DOMAIN pre[src].o :
                  LET sv == Get(pre, src, n)
                      dv == Get(pre, DestAddr, n)
                      nv == Get(post, DestAddr, n)
                  IN  (sv.k = "ref" /\ ~HoldsArray(pre, sv)) =>
                        /\ nv.k = "ref"
                        /\ \A key \in DOMAIN pre[sv.v].o :
                               Get(post, nv.v, key) = Get(pre, sv.v, key)
                        /\ dv.k = "ref" =>
                               \A key \in DOMAIN pre[dv.v].o \ DOMAIN pre[sv.v].o :
                                   Get(post, nv.v, key) = Get(pre, dv.v, key)

\* C7: merging a source without array values twice into a fresh destination gives
\* the destination that merging it once gives; every array value of a source merged
\* twice ends up with its entries twice.
C7_Idempotence ==
    (Len(mlog) >= 2 /\ IsFresh(mlog[1].pre) /\ mlog[1].src = mlog[2].src
        /\ ~mlog[1].threw /\ ~mlog[2].threw) =>
        LET src == mlog[1].src
            h0 == mlog[1].pre
            once == mlog[2].pre
            twice == PostHeap(2)
            arrays == {n \in DOMAIN h0[src].o : HoldsArray(h0, Get(h0, src, n))}
        IN  /\ arrays = {} => Deep(twice, Ref(DestAddr)) = Deep(once, Ref(DestAddr))
            /\ \A n \in arrays :
                  /\ HoldsArray(twice, Get(twice, DestAddr, n))
                  /\ twice[Get(twice, DestAddr, n).v].a
                        = h0[Get(h0, src, n).v].a \o h0[Get(h0, src, n).v].a

\* C7 witness: a source holding an object with a nested object was merged twice
\* into a fresh destination.
C7_Witness ==
    /\ Len(mlog) = 2 /\ IsFresh(mlog[1].pre) /\ LogSources = <<7, 7>>
    /\ ~mlog[2].threw
    /\ Get(mheap, DestAddr, "a").k = "ref"

(***************************************************************************)
(* The combination resolver, findValidDeviceCertProfileCombos (lines       *)
(* 178-243).  Strings are sequences of characters.                         *)
(***************************************************************************)
Dashes == <<"-", "-", "-", "-", "-">>
\* "-----BEGIN CERTIFICATE-----\n"
PemHeader ==
    Dashes \o <<"B", "E", "G", "I", "N", " ", "C", "E", "R", "T", "I", "F", "I", "C", "A", "T", "E">>
           \o Dashes \o <<"\n">>
PrefixLen == 60

StartsWith(str, prefix) ==
    Len(prefix) <= Len(str) /\ SubSeq(str, 1, Len(prefix)) = prefix

\* Faulty variant: the header line is left in place.
stripHeader_kept(pem) == pem

\* line 224: pem.replace(/^-----BEGIN CERTIFICATE-----\n/, '')
stripHeader(pem) ==
    IF StartsWith(pem, PemHeader) THEN SubSeq(pem, Len(PemHeader) + 1, Len(pem)) ELSE pem

\* line 224: .substring(0, 60)
certPrefix(pem) ==
    LET body == stripHeader(pem)
    IN  SubSeq(body, 1, IF Len(body) < PrefixLen THEN Len(body) ELSE PrefixLen)

RECURSIVE Flatten(_)
\* The concatenation of a sequence of sequences.
Flatten(seqs) == IF seqs = <<>> THEN <<>> ELSE Head(seqs) \o Flatten(Tail(seqs))

\* lines 196-202: the certificates of every type of every keychain, in order.
flattenCerts(keychains) ==
    Flatten([k \in DOMAIN keychains |-> Flatten(keychains[k])])

\* Faulty variant: the name and the udid change places in the pushed record.
pcertLoop_swapped(profile, device, cert) ==
    LET hits == SelectSeq(profile.certs, LAMBDA pcert : StartsWith(pcert, certPrefix(cert.pem)))
    IN  [i \in DOMAIN hits |->
            [ppUUID |-> profile.uuid, certName |-> device.udid, deviceUDID |-> cert.name]]

\* lines 225-233: one combo per embedded fingerprint that starts with the prefix.
pcertLoop(profile, device, cert) ==
    LET hits == SelectSeq(profile.certs, LAMBDA pcert : StartsWith(pcert, certPrefix(cert.pem)))
    IN  [i \in DOMAIN hits |->
            [ppUUID |-> profile.uuid, certName |-> cert.name, deviceUDID |-> device.udid]]

\* Faulty variant: certificates are walked in the middle loop, devices inside it.
deviceLoop_certsOuter(profile, devices, certs) ==
    Flatten([c \in DOMAIN certs |->
        Flatten([d \in DOMAIN devices |->
            IF profile.hasDevices /\ devices[d].udid \in Range(profile.devices)
            THEN pcertLoop(profile, devices[d], certs[c])
            ELSE <<>>])])

\* Faulty variant: the devices the profile lists are walked, detected or not.
deviceLoop_profileDevices(profile, devices, certs) ==
    Flatten([d \in DOMAIN profile.devices |->
        Flatten([c \in DOMAIN certs |->
            pcertLoop(profile, [udid |-> profile.devices[d]], certs[c])])])

\* lines 221-236: devices the profile does not list are skipped.
deviceLoop(profile, devices, certs) ==
    Flatten([d \in DOMAIN devices |->
        IF profile.hasDevices /\ devices[d].udid \in Range(profile.devices)
        THEN Flatten([c \in DOMAIN certs |-> pcertLoop(profile, devices[d], certs[c])])
        ELSE <<>>])

\* lines 219-237
findCombos(profiles, devices, certs) ==
    Flatten([p \in DOMAIN profiles |-> deviceLoop(profiles[p], devices, certs)])

\* Inputs: certificate bodies of 62 characters.  BodyB differs from BodyA after the
\* 60th character only, BodyC differs from it at the 60th.
BodyA == [i \in 1..62 |-> IF i % 2 = 0 THEN "A" ELSE "B"]
BodyB == [i \in 1..62 |-> IF i > 60 THEN "Z" ELSE BodyA[i]]
BodyC == [i \in 1..62 |-> IF i = 60 THEN "C" ELSE BodyA[i]]
BodyS == <<"S", "S", "S">>
CertA == [name |-> "Dev1", pem |-> PemHeader \o BodyA]
CertB == [name |-> "Dev2", pem |-> PemHeader \o BodyB]
CertC == [name |-> "Dist1", pem |-> BodyC]
CertS == [name |-> "Short", pem |-> PemHeader \o BodyS]
DeviceLists ==
    { <<>>, <<[udid |-> "D1"]>>, <<[udid |-> "D2"]>>, <<[udid |-> "D1"], [udid |-> "D2"]>> }
\* certResults.certs.keychains: per keychain, per type, a list of certificates.
Keychains ==
    { <<>>,
      << << <<>> >> >>,
      << << <<CertA>> >> >>,
      << << <<CertA>>, <<CertC>> >>, << <<CertB>> >> >>,
      << << <<CertC, CertS>> >> >> }
ProfileP1 == [uuid |-> "P1", hasDevices |-> TRUE, devices |-> <<"D1">>, certs |-> <<BodyA \o <<"X", "Y", "Z">> >>]
ProfileP2 == [uuid |-> "P2", hasDevices |-> TRUE, devices |-> <<"D1", "D2">>, certs |-> <<BodyC, BodyA, BodyA>>]
ProfileP3 == [uuid |-> "P3", hasDevices |-> FALSE, devices |-> <<>>, certs |-> <<BodyA>>]
ProfileP4 == [uuid |-> "P4", hasDevices |-> TRUE, devices |-> <<"D2">>, certs |-> <<BodyS \o <<"T">> >>]
ProfileLists ==
    { <<>>, <<ProfileP1>>, <<ProfileP2, ProfileP1>>, <<ProfileP3, ProfileP4>>, <<ProfileP4, ProfileP2>> }

\* What a collaborator calls back with: an error or none, and a result or undefined.
\* Without an error there is a result; with an error there may be none.
Responses(values) ==
    {[err |-> e, has |-> h, val |-> v] : e \in BOOLEAN, h \in {TRUE}, v \in values}
        \cup {[err |-> TRUE, has |-> FALSE, val |-> <<>>]}

Delivered(err, combos) ==
    [status |-> IF err = "none" THEN "ok" ELSE "error", error |-> err,
     combos |-> combos, notified |-> fresult.notified + 1]
\* A TypeError thrown inside a collaborator's callback: the caller's callback is
\* not invoked.
Thrown == [fresult EXCEPT !.status = "threw"]

\* lines 178-188: the collaborators are asked one after the other, devices first.
findValidDeviceCertProfileCombos ==
    /\ fpc = "idle"
    /\ fpc' = "device.detect"
    /\ fasked' = Append(fasked, "device.detect")
    /\ UNCHANGED <<fdev, fcert, fprof, fresult, orchVars, mixVars>>

\* Faulty variant: certificates are looked up even when no device is connected.
deviceCallback_noReturn(resp) ==
    /\ fpc = "device.detect"
    /\ fdev' = resp
    /\ IF ~resp.has
       THEN /\ fpc' = "done"
            /\ fresult' = Thrown
            /\ UNCHANGED fasked
       ELSE /\ fresult' = IF Len(resp.val) = 0
                          THEN Delivered("No iOS devices connected", <<>>)
                          ELSE fresult
            /\ fpc' = "certs.detect"
            /\ fasked' = Append(fasked, "certs.detect")
    /\ UNCHANGED <<fcert, fprof, orchVars, mixVars>>

\* lines 188-195: device.detect calls back; err is not looked at.
deviceCallback(resp) ==
    /\ fpc = "device.detect"
    /\ fdev' = resp
    /\ IF ~resp.has
       THEN /\ fpc' = "done"
            /\ fresult' = Thrown
            /\ UNCHANGED fasked
       ELSE IF Len(resp.val) = 0
       THEN /\ fpc' = "done"
            /\ fresult' = Delivered("No iOS devices connected", <<>>)
            /\ UNCHANGED fasked
       ELSE /\ fpc' = "certs.detect"
            /\ fasked' = Append(fasked, "certs.detect")
            /\ UNCHANGED fresult
    /\ UNCHANGED <<fcert, fprof, orchVars, mixVars>>

\* lines 195-213: certs.detect calls back; err is not looked at.
certsCallback(resp) ==
    /\ fpc = "certs.detect"
    /\ fcert' = resp
    /\ IF ~resp.has
       THEN /\ fpc' = "done"
            /\ fresult' = Thrown
            /\ UNCHANGED fasked
       ELSE IF Len(flattenCerts(resp.val)) = 0
       THEN /\ fpc' = "done"
            /\ fresult' = Delivered("No iOS certificates", <<>>)
            /\ UNCHANGED fasked
       ELSE /\ fpc' = "provisioning.find"
            /\ fasked' = Append(fasked, "provisioning.find")
            /\ UNCHANGED fresult
    /\ UNCHANGED <<fdev, fprof, orchVars, mixVars>>

\* lines 213-240: provisioning.find calls back; err is not looked at.
profilesCallback(resp) ==
    /\ fpc = "provisioning.find"
    /\ fprof' = resp
    /\ fpc' = "done"
    /\ fresult' =
          IF ~resp.has THEN Thrown
          ELSE IF Len(resp.val) = 0
          THEN Delivered("No provisioning profiles found", <<>>)
          ELSE Delivered("none", findCombos(resp.val, fdev.val, flattenCerts(fcert.val)))
    /\ UNCHANGED <<fasked, fdev, fcert, orchVars, mixVars>>

InitCombos == InitOrch /\ InitMerger /\ InitResolver

NextCombos ==
    \/ findValidDeviceCertProfileCombos
    \/ \E resp \in Responses(DeviceLists) : deviceCallback(resp)
    \/ \E resp \in Responses(Keychains) : certsCallback(resp)
    \/ \E resp \in Responses(ProfileLists) : profilesCallback(resp)

SpecCombos == InitCombos /\ [][NextCombos]_vars

(***************************************************************************)
(* Claims about the resolver (checked under SpecCombos).                   *)
(***************************************************************************)
\* The PEM body of a certificate: the text after the header line, if it has one.
BodyOf(cert) ==
    LET n == Len(PemHeader)
    IN  IF Len(cert.pem) >= n /\ \A i \in 1..n : cert.pem[i] = PemHeader[i]
        THEN [i \in 1..(Len(cert.pem) - n) |-> cert.pem[i + n]]
        ELSE cert.pem
\* Some fingerprint of the profile starts with the first 60 characters of the body.
Embeds(profile, cert) ==
    \E f \in Range(profile.certs) :
        LET body == BodyOf(cert)
            m == IF Len(body) < 60 THEN Len(body) ELSE 60
        IN  Len(f) >= m /\ \A i \in 1..m : f[i] = body[i]
Authorizes(profile, device) ==
    profile.hasDevices /\ \E i \in DOMAIN profile.devices : profile.devices[i] = device.udid
ComboOf(profile, cert, device) ==
    [ppUUID |-> profile.uuid, certName |-> cert.name, deviceUDID |-> device.udid]
CertsOf(keychains) ==
    UNION { UNION {Range(keychains[k][t]) : t \in DOMAIN keychains[k]} : k \in DOMAIN keychains }

\* C8: when the resolver succeeds, the combos it delivers are exactly those of the
\* triples (profile, certificate, device) where the profile lists the device's udid
\* and embeds a fingerprint starting with the first 60 characters of the
\* certificate's PEM body.
C8_CombosSoundComplete ==
    fresult.status = "ok" =>
        Range(fresult.combos) =
            { ComboOf(t[1], t[2], t[3]) : t \in
                { t \in Range(fprof.val) \X CertsOf(fcert.val) \X Range(fdev.val) :
                    Authorizes(t[1], t[3]) /\ Embeds(t[1], t[2]) } }

\* C8 witness: the resolver succeeded with some combos, while one triple was left out
\* for its device and another for its certificate.
C8_Witness ==
    /\ fresult.status = "ok"
    /\ fresult.combos # <<>>
    /\ \E t \in Range(fprof.val) \X CertsOf(fcert.val) \X Range(fdev.val) :
          ~Authorizes(t[1], t[3]) /\ Embeds(t[1], t[2])
    /\ \E t \in Range(fprof.val) \X CertsOf(fcert.val) \X Range(fdev.val) :
          Authorizes(t[1], t[3]) /\ ~Embeds(t[1], t[2])

ResolverSteps == <<"device.detect", "certs.detect", "provisioning.find">>
Failure(message) == [status |-> "error", error |-> message, combos |-> <<>>, notified |-> 1]
NoCertificates(keychains) ==
    \A k \in DOMAIN keychains : \A t \in DOMAIN keychains[k] : keychains[k][t] = <<>>

\* C9: devices are looked up first, then certificates, then profiles.  With an empty
\* device list the caller gets the no-devices error and nothing else is looked up;
\* with devices but no certificate it gets the no-certificates error and profiles are
\* not looked up; with no profile it gets the no-profiles error; an error never comes
\* with combos.
C9_PreconditionOrder ==
    /\ \E n \in 0..3 : fasked = SubSeq(ResolverSteps, 1, n)
    /\ (fdev.has /\ fdev.val = <<>>) =>
          /\ fresult = Failure("No iOS devices connected")
          /\ fasked = SubSeq(ResolverSteps, 1, 1)
    /\ (fdev.has /\ fdev.val # <<>> /\ fcert.has /\ NoCertificates(fcert.val)) =>
          /\ fresult = Failure("No iOS certificates")
          /\ fasked = SubSeq(ResolverSteps, 1, 2)
    /\ (fdev.has /\ fdev.val # <<>> /\ fcert.has /\ ~NoCertificates(fcert.val)
            /\ fprof.has /\ fprof.val = <<>>) =>
          fresult = Failure("No provisioning profiles found")
    /\ fresult.status # "ok" => fresult.combos = <<>>

\* C9 witness: devices were found, the keychains held no certificate, and the caller
\* got the no-certificates error.
C9_Witness ==
    /\ fpc = "done"
    /\ fdev.has /\ fdev.val # <<>>
    /\ fcert.has /\ fcert.val # <<>> /\ NoCertificates(fcert.val)
    /\ fresult.error = "No iOS certificates"

\* The first lookup that reported an error.
LookupError ==
    IF fdev.err THEN "device.detect"
    ELSE IF fcert.err THEN "certs.detect"
    ELSE IF fprof.err THEN "provisioning.find"
    ELSE "none"

\* C10 as stated: no exception is thrown out of a collaborator's callback, and when
\* a lookup has reported an error the resolver ends with that error delivered to the
\* caller's callback.
C10_ErrorsDelivered ==
    /\ fresult.status # "threw"
    /\ (fpc = "done" /\ LookupError # "none") =>
          /\ fresult.status = "error"
          /\ fresult.error = LookupError

\* The inputs of the worked example: device D1, certificate Dev1, and profile P1
\* listing D1 and embedding one fingerprint that extends Dev1's 60-character prefix.
ExampleInputs ==
    /\ fdev.has /\ fdev.val = << [udid |-> "D1"] >>
    /\ fcert.has /\ fcert.val = << << <<CertA>> >> >>
    /\ fprof.has /\ fprof.val = <<ProfileP1>>

\* C11 as stated: every combo has exactly the fields profileUUID, certName and
\* deviceUDID.
C11_FieldsAsStated ==
    fresult.status = "ok" =>
        \A i \in DOMAIN fresult.combos :
            DOMAIN fresult.combos[i] = {"profileUUID", "certName", "deviceUDID"}

\* C11, amended: every combo delivered has exactly the fields ppUUID, certName and
\* deviceUDID, and they carry the uuid of a profile, the name of a certificate and
\* the udid of a device of one matching triple; the worked example delivers exactly
\* one combo, {ppUUID: "P1", certName: "Dev1", deviceUDID: "D1"}.
C11_ComboShape ==
    fresult.status = "ok" =>
        /\ \A i \in DOMAIN fresult.combos :
              LET combo == fresult.combos[i]
              IN  /\ DOMAIN combo = {"ppUUID", "certName", "deviceUDID"}
                  /\ \E t \in Range(fprof.val) \X CertsOf(fcert.val) \X Range(fdev.val) :
                        /\ Authorizes(t[1], t[3]) /\ Embeds(t[1], t[2])
                        /\ combo.ppUUID = t[1].uuid
                        /\ combo.certName = t[2].name
                        /\ combo.deviceUDID = t[3].udid
        /\ ExampleInputs =>
              fresult.combos = << [ppUUID |-> "P1", certName |-> "Dev1", deviceUDID |-> "D1"] >>

\* C11 witness: the resolver has delivered the combos of the worked example.
C11_Witness ==
    /\ fresult.status = "ok"
    /\ ExampleInputs
    /\ Len(fresult.combos) = 1

\* The matches of one resolution, as indexes into the inputs: <<profile, device,
\* certificate, fingerprint>>, the certificates numbered as the keychains list them.
Matches ==
    LET certs == flattenCerts(fcert.val)
        prints == UNION {DOMAIN fprof.val[p].certs : p \in DOMAIN fprof.val}
    IN  { t \in (DOMAIN fprof.val) \X (DOMAIN fdev.val) \X (DOMAIN certs) \X prints :
            /\ t[4] \in DOMAIN fprof.val[t[1]].certs
            /\ Authorizes(fprof.val[t[1]], fdev.val[t[2]])
            /\ LET body == BodyOf(certs[t[3]])
                   m == IF Len(body) < 60 THEN Len(body) ELSE 60
                   f == fprof.val[t[1]].certs[t[4]]
               IN  Len(f) >= m /\ \A i \in 1..m : f[i] = body[i] }
LexLess(u, t) ==
    \E k \in 1..4 : u[k] < t[k] /\ \A j \in 1..(k - 1) : u[j] = t[j]
Rank(t) == Cardinality({u \in Matches : LexLess(u, t)}) + 1

\* C12: the combos delivered are those of the matches <<profile, device, certificate,
\* fingerprint>> in lexicographic order of their indexes, one combo per match: a
\* triple is repeated once per matching fingerprint and nothing is deduplicated.
C12_OrderNoDedup ==
    fresult.status = "ok" =>
        /\ Len(fresult.combos) = Cardinality(Matches)
        /\ \A t \in Matches :
              fresult.combos[Rank(t)] =
                  ComboOf(fprof.val[t[1]], flattenCerts(fcert.val)[t[3]], fdev.val[t[2]])

\* C12 witness: combos were delivered for two profiles, two devices and two
\* certificates, and one combo appears twice.
C12_Witness ==
    /\ fresult.status = "ok"
    /\ \E i, j \in DOMAIN fresult.combos : i < j /\ fresult.combos[i] = fresult.combos[j]
    /\ Cardinality({fresult.combos[i].ppUUID : i \in DOMAIN fresult.combos}) > 1
    /\ Cardinality({fresult.combos[i].certName : i \in DOMAIN fresult.combos}) > 1
    /\ Cardinality({fresult.combos[i].deviceUDID : i \in DOMAIN fresult.combos}) > 1

\* What the three lookups of one resolution returned.
DetectedUDIDs == {fdev.val[i].udid : i \in DOMAIN fdev.val}
DetectedCertNames == {cert.name : cert \in CertsOf(fcert.val)}
FoundProfileUUIDs == {fprof.val[i].uuid : i \in DOMAIN fprof.val}

\* C13: every combo delivered names a device that device.detect returned, a
\* certificate that certs.detect returned and a profile that provisioning.find
\* returned, all in this resolution.
C13_CombosReferenceSnapshot ==
    \A i \in DOMAIN fresult.combos :
        /\ fresult.combos[i].deviceUDID \in DetectedUDIDs
        /\ fresult.combos[i].certName \in DetectedCertNames
        /\ fresult.combos[i].ppUUID \in FoundProfileUUIDs

\* C13 witness: combos were delivered although a profile lists a device that was not
\* detected and embeds a fingerprint of no detected certificate.
C13_Witness ==
    /\ fresult.status = "ok"
    /\ fresult.combos # <<>>
    /\ \E p \in Range(fprof.val) :
          /\ \E udid \in Range(p.devices) : udid \notin DetectedUDIDs
          /\ \E f \in Range(p.certs) :
                \A cert \in CertsOf(fcert.val) : ~Embeds([p EXCEPT !.certs = <<f>>], cert)

(***************************************************************************)
(* Further claims about the orchestrator (checked under Spec).             *)
(***************************************************************************)
\* A pass: a call that did not return the cached report.
IsPass(c) ==
    /\ calls[c].called
    /\ calls[c].variant = "promise" \/ calls[c].cacheAtCall = 0 \/ calls[c].bypassCache
DetectorsOf(c) == IF calls[c].variant = "promise" THEN PromiseDetectors ELSE Detectors
\* The detectors of a pass of detect whose results have been merged.
Merged(c) ==
    { d \in Range(Detectors) :
        calls[c].det[d] = "ok" \/ (calls[c].det[d] = "done" /\ calls[c].report = c) }
\* The diagnostics a detector hands over with its result.
IssuesOf(d) ==
    LET result == PassHeap[ResultOf[d]]
    IN  IF "issues" \in DOMAIN result.o THEN Range(PassHeap[result.o["issues"].v].a) ELSE {}
ReportIssues(c) == heaps[c][heaps[c][ResultsAddr].o["issues"].v].a

\* C14: in a pass every detector of the list has been started, once, with the
\* options of the call, from the moment the call is made; and whatever the order of
\* completion, the report under construction holds the result of every detector
\* that has succeeded so far, once, and nothing of the others: each of their keys
\* with the value handed over, and each of their diagnostics once in issues.
C14_StartedOnceMergedOnce ==
    \A c \in CallIds :
        /\ IsPass(c) =>
              /\ Len(calls[c].launched) = Len(DetectorsOf(c))
              /\ \A d \in Range(DetectorsOf(c)) :
                    /\ Cardinality({i \in DOMAIN calls[c].launched : calls[c].launched[i].det = d}) = 1
                    /\ Invoked(c, d)
              /\ \A i \in DOMAIN calls[c].launched : calls[c].launched[i].opts = calls[c].bypassCache
        /\ (IsPass(c) /\ calls[c].variant = "callback" /\ heaps[c] # <<>>) =>
              LET h == heaps[c]
                  report == h[ResultsAddr]
              IN  /\ report.o["detectVersion"] = Prim(4)
                  /\ \A d \in Range(Detectors) :
                        /\ \A name \in DOMAIN PassHeap[ResultOf[d]].o \ {"issues"} :
                              IF d \in Merged(c)
                              THEN /\ name \in DOMAIN report.o
                                   /\ Deep(h, report.o[name])
                                         = Deep(PassHeap, PassHeap[ResultOf[d]].o[name])
                              ELSE name \notin DOMAIN report.o
                        /\ \A e \in IssuesOf(d) :
                              Cardinality({i \in DOMAIN ReportIssues(c) : ReportIssues(c)[i] = e})
                                  = IF d \in Merged(c) THEN 1 ELSE 0
                  /\ \A i \in DOMAIN ReportIssues(c) :
                        \E d \in Merged(c) : ReportIssues(c)[i] \in IssuesOf(d)

\* C14 witness: all six detectors succeeded, and the diagnostics of the provisioning
\* profiles were merged before those of the certificates.
C14_Witness ==
    \E c \in CallIds :
        /\ calls[c].variant = "callback"
        /\ AllOk(c, Detectors)
        /\ Len(ReportIssues(c)) = 2
        /\ ReportIssues(c)[1] \in IssuesOf("provisioningProfiles")
        /\ ReportIssues(c)[2] \in IssuesOf("certificates")

\* What the caller of call c has received so far.
Received(c) ==
    [notified |-> calls[c].notified, err |-> calls[c].err, report |-> calls[c].report,
     emitted |-> calls[c].emitted, uncaught |-> calls[c].uncaught]
\* A step in which a detector of a pass that has already failed calls back.
Straggler(c) ==
    /\ calls[c].settled /\ calls[c].err # "none"
    /\ \E d \in AllDetectors : calls[c].det[d] = "pending" /\ calls'[c].det[d] # "pending"

\* C15: a call never notifies its caller twice and nothing is thrown; it has notified
\* it once when the cached report was returned, when a detector has failed and when
\* every detector has completed; and a detector that calls back after the failure of
\* its pass was reported, with a result or with an error, changes neither the cache
\* nor anything the caller received.
C15_NotifiedOnce ==
    /\ [](\A c \in CallIds :
            /\ calls[c].notified <= 1
            /\ calls[c].uncaught = 0
            /\ (calls[c].called /\ ~IsPass(c)) => calls[c].notified = 1
            /\ calls[c].firstErr # "none" => calls[c].notified = 1
            /\ (calls[c].called /\ ~Pending(calls[c])) => calls[c].notified = 1)
    /\ [][\A c \in CallIds :
            Straggler(c) => /\ cache' = cache
                            /\ Received(c)' = Received(c)]_vars

\* C15 witness: a report is cached, and in a later pass one detector failed, then
\* another failed too while the four others succeeded.
C15_Witness ==
    \E c \in CallIds :
        /\ calls[c].variant = "callback"
        /\ cache # 0
        /\ calls[c].notified = 1
        /\ CountIn(c, Detectors, "err") = 2
        /\ CountIn(c, Detectors, "ok") = 4

\* The caller of c has been notified, with a report or with an error.
Answered(c) == calls[c].notified = 1 /\ (calls[c].report # 0 \/ calls[c].err # "none")

\* C16 (checked under SpecLive): every call that is made eventually notifies its
\* caller, with a report or with an error, so that again and again no call is left
\* unanswered (a call, once made and once answered, stays so); and whenever a caller
\* has received the report of its own pass, every detector of that pass had
\* succeeded.
C16_EventuallyNotified ==
    /\ []<>(\A c \in CallIds : calls[c].called => Answered(c))
    /\ [](\A c \in CallIds :
            calls[c].report = c =>
                \A d \in Range(DetectorsOf(c)) : calls[c].det[d] \in {"ok", "done"})

\* C16 witness: the caller has its error as soon as the first detector has failed,
\* while the five other detectors are still running.
C16_Witness ==
    \E c \in CallIds :
        /\ calls[c].variant = "callback"
        /\ calls[c].notified = 1
        /\ calls[c].err # "none"
        /\ CountIn(c, Detectors, "pending") = 5

\* A report that is in the cache or that some caller has received.
Shared(b) == cache = b \/ \E c \in CallIds : calls[c].report = b

\* C17: no step changes an object of a report that is in the cache or that a caller
\* has received; a later pass, with bypassCache, merges into a results object of its
\* own, whether it goes on to succeed or to fail.
C17_CachedReportImmutable ==
    [][\A b \in CallIds : Shared(b) => heaps'[b] = heaps[b]]_vars

\* C17 witness: a report is cached and was handed to a caller, and a later pass with
\* bypassCache has merged the results of five detectors while the sixth failed; the
\* cached report is what it was when that pass began.
C17_Witness ==
    \E b, c \in CallIds :
        /\ b < c
        /\ calls[b].report = b /\ calls[b].variant = "callback"
        /\ calls[c].variant = "callback" /\ calls[c].bypassCache /\ calls[c].cacheAtCall = b
        /\ CountIn(c, Detectors, "ok") = 5
        /\ CountIn(c, Detectors, "err") = 1
        /\ heaps[c] # PassHeap
        /\ heaps[b] = calls[c].heapAtCall

\* The results object of pass c holds the result of every detector: each of their
\* keys with the value handed over, and each of their diagnostics once.
Complete(c) ==
    /\ heaps[c] # <<>>
    /\ LET h == heaps[c]
           report == h[ResultsAddr]
       IN  /\ \A d \in Range(Detectors) :
                 /\ \A name \in DOMAIN PassHeap[ResultOf[d]].o \ {"issues"} :
                       /\ name \in DOMAIN report.o
                       /\ Deep(h, report.o[name]) = Deep(PassHeap, PassHeap[ResultOf[d]].o[name])
                 /\ \A e \in IssuesOf(d) :
                       Cardinality({i \in DOMAIN ReportIssues(c) : ReportIssues(c)[i] = e}) = 1
           /\ Len(ReportIssues(c)) = Cardinality(UNION {IssuesOf(d) : d \in Range(Detectors)})

\* C18 (checked under SpecOverlap): whatever the calls and however they overlap, the
\* cache is empty or holds the results of a pass none of whose detectors has failed
\* or is still running, with the result of every detector merged into them.
C18_CacheHoldsCompleteReport ==
    cache # 0 =>
        /\ calls[cache].called
        /\ calls[cache].report = cache
        /\ calls[cache].firstErr = "none"
        /\ \A d \in Range(Detectors) : calls[cache].det[d] \in {"ok", "done"}
        /\ Complete(cache)

\* C18 witness: two passes started while the cache was empty; one has succeeded and
\* is cached while the other, which has merged some results, is still running.
C18_Witness ==
    \E b, c \in CallIds :
        /\ b # c
        /\ cache = c
        /\ calls[b].called /\ calls[b].cacheAtCall = 0 /\ calls[c].cacheAtCall = 0
        /\ CountIn(b, Detectors, "ok") >= 2
        /\ CountIn(b, Detectors, "pending") >= 2

(***************************************************************************)
(* Further claims about the merger (checked under SpecMix).                *)
(***************************************************************************)
RECURSIVE HeldBy(_, _)
\* The object at addr with the arrays and objects it holds, directly or not.
HeldBy(h, addr) ==
    {addr} \cup UNION { HeldBy(h, h[addr].o[n].v) : n \in {m \in DOMAIN h[addr].o : h[addr].o[m].k = "ref"} }

\* The i-th merge left alone what the destination held under the keys the source does
\* not have.
KeepsOtherKeys(i) ==
    LET pre == mlog[i].pre
        post == PostHeap(i)
    IN  \A name \in DOMAIN pre[DestAddr].o \ DOMAIN pre[mlog[i].src].o :
            /\ name \in DOMAIN post[DestAddr].o
            /\ Deep(post, post[DestAddr].o[name]) = Deep(pre, pre[DestAddr].o[name])

\* C19 as stated: a merge leaves alone every key of the destination that the source
\* does not have, and changes neither its source nor any array or object held by its
\* source or by the source of an earlier merge.
C19_MergeFrame ==
    \A i \in DOMAIN mlog :
        /\ KeepsOtherKeys(i)
        /\ \A j \in 1..i :
              \A addr \in HeldBy(MixSourceHeap, mlog[j].src) :
                  PostHeap(i)[addr] = mlog[i].pre[addr]

====
